---- MODULE Spec2Model ----
(***************************************************************************)
(* A model of src/App.tsx, the base64img-web converter component.          *)
(*                                                                         *)
(* The React state of App is the model's state; every event handler, timer *)
(* callback and promise continuation of processImage is one action (the    *)
(* JavaScript run-to-completion step between two awaits).  The clipboard   *)
(* and download handlers and the drag-over highlight are not modelled.     *)
(*                                                                         *)
(* JavaScript numbers are modelled exactly, as fractions n/d with d > 0,   *)
(* together with Infinity (1/0), -Infinity (-1/0) and NaN (0/0).           *)
(***************************************************************************)
EXTENDS Integers, Sequences, FiniteSets, TLC

(***************************************************************************)
(* Bounds of the model.                                                    *)
(***************************************************************************)
\* processImage invocations started in one behaviour
MaxInv == 2
\* largest natural width / height drawn for the geometry specification
MaxDim == 4
\* base64 payloads of 0..MaxQuads groups of four characters (size accounting)
MaxQuads == 345

(***************************************************************************)
(* Program constants.                                                      *)
(***************************************************************************)
\* useState(256), line 24
InitialCanvasSize == 256
\* value >= 8, line 226
MinCanvasSize == 8
\* value <= 2048, line 226
MaxCanvasSize == 2048
\* outputSizeBytes / 1024, line 133
BytesPerKB == 1024

\* line 18
ALLOWED_TYPES == {"image/png", "image/jpeg", "image/webp", "image/svg+xml"}

\* JavaScript null
null == [null |-> TRUE]

(***************************************************************************)
(* JavaScript number arithmetic, exact.                                    *)
(***************************************************************************)
Num(n, d) == [n |-> n, d |-> d]
NaN == Num(0, 0)
FromInt(i) == Num(i, 1)
IsNaN(a) == a.d = 0 /\ a.n = 0
IsFinite(a) == a.d > 0
Sign(i) == IF i > 0 THEN 1 ELSE IF i < 0 THEN -1 ELSE 0

\* a / b for integers a, b with b >= 0 (the divisions of line 107)
JsDivInt(a, b) == IF b = 0 THEN Num(Sign(a), 0) ELSE Num(a, b)

\* a <= b, false when either is NaN
JsLe(a, b) ==
  IF IsNaN(a) \/ IsNaN(b) THEN FALSE
  ELSE IF ~IsFinite(a) THEN (a.n < 0 \/ (~IsFinite(b) /\ b.n > 0))
  ELSE IF ~IsFinite(b) THEN b.n > 0
  ELSE a.n * b.d <= b.n * a.d

JsEq(a, b) ==
  IF IsNaN(a) \/ IsNaN(b) THEN FALSE
  ELSE IF ~IsFinite(a) \/ ~IsFinite(b) THEN a = b
  ELSE a.n * b.d = b.n * a.d

\* Math.max(a, b): the wrong choice of ratio
JsMax(a, b) ==
  IF IsNaN(a) \/ IsNaN(b) THEN NaN ELSE IF JsLe(a, b) THEN b ELSE a

\* Math.min(a, b)
JsMin(a, b) ==
  IF IsNaN(a) \/ IsNaN(b) THEN NaN ELSE IF JsLe(a, b) THEN a ELSE b

\* i * a for an integer i
JsMulInt(i, a) ==
  IF IsNaN(a) THEN NaN
  ELSE IF ~IsFinite(a) THEN Num(Sign(i) * a.n, 0)
  ELSE Num(i * a.n, a.d)

\* i - a for an integer i
JsIntMinus(i, a) ==
  IF IsNaN(a) THEN NaN
  ELSE IF ~IsFinite(a) THEN Num(-a.n, 0)
  ELSE Num(i * a.d - a.n, a.d)

\* a + b
JsAdd(a, b) ==
  IF IsNaN(a) \/ IsNaN(b) THEN NaN
  ELSE IF ~IsFinite(a) /\ ~IsFinite(b) THEN (IF a.n = b.n THEN a ELSE NaN)
  ELSE IF ~IsFinite(a) THEN a
  ELSE IF ~IsFinite(b) THEN b
  ELSE Num(a.n * b.d + b.n * a.d, a.d * b.d)

\* a / 2
JsHalf(a) == IF IsFinite(a) THEN Num(a.n, 2 * a.d) ELSE a

\* Math.round of the non-negative fraction n/d: floor(n/d + 1/2)
MathRound(n, d) == (2 * n + d) \div (2 * d)

\* Math.ceil of the non-negative fraction n/d
MathCeil(n, d) == (n + d - 1) \div d

(***************************************************************************)
(* parseInt on the text of the number input, a sequence of characters.     *)
(***************************************************************************)
DigitValue(c) ==
  CASE c = "0" -> 0 [] c = "1" -> 1 [] c = "2" -> 2 [] c = "3" -> 3
    [] c = "4" -> 4 [] c = "5" -> 5 [] c = "6" -> 6 [] c = "7" -> 7
    [] c = "8" -> 8 [] c = "9" -> 9 [] OTHER -> -1

\* the longest run of decimal digits of s from position i on
RECURSIVE DigitRun(_, _, _, _)
DigitRun(s, i, acc, seen) ==
  IF i > Len(s) \/ DigitValue(s[i]) < 0
  THEN [seen |-> seen, val |-> acc]
  ELSE DigitRun(s, i + 1, 10 * acc + DigitValue(s[i]), TRUE)

\* parseInt(e.target.value), line 225: optional sign, leading digits, else NaN
parseInt(s) ==
  LET signed == Len(s) > 0 /\ s[1] \in {"-", "+"}
      run == DigitRun(s, IF signed THEN 2 ELSE 1, 0, FALSE)
  IN IF ~run.seen THEN NaN
     ELSE FromInt(IF signed /\ s[1] = "-" THEN -run.val ELSE run.val)

\* a guard that admits one edge too many below
CanvasSizeAcceptedLoose(value) ==
  JsLe(FromInt(MinCanvasSize - 1), value) /\ JsLe(value, FromInt(MaxCanvasSize))

\* value >= 8 && value <= 2048, line 226
CanvasSizeAccepted(value) ==
  JsLe(FromInt(MinCanvasSize), value) /\ JsLe(value, FromInt(MaxCanvasSize))

\* texts the number input hands to handleCanvasSizeChange
CanvasInputs ==
  { <<"7">>, <<"8">>, <<"2", "0", "4", "8">>, <<"2", "0", "4", "9">>,
    << >>, <<"-", "8">>, <<"8", ".", "5">>, <<"1", "e", "3">> }

(***************************************************************************)
(* Files the user can select, and what the browser's decoder reports for   *)
(* each (img.naturalWidth, img.naturalHeight).                             *)
(***************************************************************************)
File(name, type, size) == [name |-> name, type |-> type, size |-> size]

\* the files offered to the component
Files ==
  { File("wide.png", "image/png", 300),
    File("tall.jpg", "image/jpeg", 200),
    File("anim.gif", "image/gif", 400) }

\* an SVG without intrinsic size, for which the browser reports 0 x 0
UnsizedFiles == { File("unsized.svg", "image/svg+xml", 50) }

\* one file to convert and one to be rejected
RetryFiles ==
  { File("wide.png", "image/png", 300), File("anim.gif", "image/gif", 400) }

naturalWidth(file) ==
  CASE file.name = "wide.png" -> 2
    [] file.name = "unsized.svg" -> 0
    [] OTHER -> 1

naturalHeight(file) ==
  CASE file.name = "tall.jpg" -> 2
    [] file.name = "unsized.svg" -> 0
    [] OTHER -> 1

\* a whitelist that lets every image/* type through
isValidImageTypeAny(type) == type \in ALLOWED_TYPES \cup {"image/gif"}

\* lines 48-50
isValidImageType(type) == type \in ALLOWED_TYPES

(***************************************************************************)
(* Geometry, lines 101-125.                                                *)
(***************************************************************************)
\* the larger ratio: the image overflows the square
ScaleMax(size, nw, nh) == JsMax(JsDivInt(size, nw), JsDivInt(size, nh))

\* line 107
Scale(size, nw, nh) == JsMin(JsDivInt(size, nw), JsDivInt(size, nh))

\* the scaled image drawn at the top-left corner, not centred
FitRectTopLeft(size, nw, nh) ==
  [x |-> FromInt(0), y |-> FromInt(0),
   width |-> JsMulInt(nw, Scale(size, nw, nh)),
   height |-> JsMulInt(nh, Scale(size, nw, nh))]

\* lines 107-113: the arguments of drawImage in the fit-to-square branch
FitRect(size, nw, nh) ==
  LET scale == Scale(size, nw, nh)
      scaledWidth == JsMulInt(nw, scale)
      scaledHeight == JsMulInt(nh, scale)
  IN [x |-> JsHalf(JsIntMinus(size, scaledWidth)),
      y |-> JsHalf(JsIntMinus(size, scaledHeight)),
      width |-> scaledWidth,
      height |-> scaledHeight]

\* line 124: drawImage(img, 0, 0) draws at the natural size
NativeRect(nw, nh) ==
  [x |-> FromInt(0), y |-> FromInt(0), width |-> FromInt(nw), height |-> FromInt(nh)]

\* drawImage paints nothing for an image without area or a non-finite argument
Paints(rect, nw, nh) ==
  /\ nw > 0 /\ nh > 0
  /\ IsFinite(rect.x) /\ IsFinite(rect.y)
  /\ IsFinite(rect.width) /\ IsFinite(rect.height)

\* the canvas after lines 101-125
Canvas(fit, size, file) ==
  LET nw == naturalWidth(file)
      nh == naturalHeight(file)
      rect == IF fit THEN FitRect(size, nw, nh) ELSE NativeRect(nw, nh)
  IN [width |-> IF fit THEN size ELSE nw,
      height |-> IF fit THEN size ELSE nh,
      rect |-> rect,
      image |-> IF Paints(rect, nw, nh) THEN file.name ELSE "transparent"]

(***************************************************************************)
(* Encoding and size accounting, lines 127-133.                            *)
(***************************************************************************)
\* The PNG encoder is a function of the canvas: the same canvas gives the
\* same payload.  Its length stands in as the 57 bytes of the signature and
\* the IHDR, IDAT and IEND chunks plus one byte for each row, in padded
\* base64 (groups of four characters for three bytes).
PngBase64Length(canvas) == 4 * MathCeil(57 + canvas.height, 3)

\* canvas.toDataURL('image/png'): "data:," for a canvas without area, else
\* the PNG of the canvas in base64
toDataURL(canvas) ==
  IF canvas.width = 0 \/ canvas.height = 0
  THEN [header |-> "data:", base64 |-> [png |-> "none", length |-> 0]]
  ELSE [header |-> "data:image/png;base64",
        base64 |-> [png |-> canvas, length |-> PngBase64Length(canvas)]]

\* the text length taken for the byte length
OutputSizeBytesOfText(base64Length) == base64Length

\* line 132: Math.round((base64Data.length * 3) / 4)
OutputSizeBytes(base64Length) == MathRound(base64Length * 3, 4)

\* line 133: Math.round(outputSizeBytes / 1024 * 10) / 10, as a fraction over 10
OutputSizeKB(base64Length) ==
  Num(MathRound(OutputSizeBytes(base64Length) * 10, BytesPerKB), 10)

\* the object of lines 135-140
OutputData(canvas) ==
  LET pngDataUri == toDataURL(canvas)
  IN [dataUri |-> pngDataUri,
      outputSizeKB |-> OutputSizeKB(pngDataUri.base64.length),
      outputWidth |-> canvas.width,
      outputHeight |-> canvas.height]

\* the object of lines 81-87
ImageMetadata(file) ==
  [filename |-> file.name, type |-> file.type, size |-> file.size,
   width |-> naturalWidth(file), height |-> naturalHeight(file)]

(***************************************************************************)
(* State.                                                                  *)
(***************************************************************************)
VARIABLES
  selectedFile,    \* useState, line 21
  imageMetadata,   \* useState, line 22
  outputData,      \* useState, line 23
  canvasSize,      \* useState, line 24
  fitToSquare,     \* useState, line 25
  isProcessing,    \* useState, line 27
  error,           \* useState, line 28
  closure,         \* fitToSquare and canvasSize as the memoized processImage sees them
  timers,          \* the pending re-process timeouts, each with its file
  invocations,     \* the processImage calls, in the order they were started
  started,         \* how many processImage calls have been started
  changedSince,    \* a control changed after the latest processImage call
  probe            \* argument and result of a function applied on its own

vars ==
  <<selectedFile, imageMetadata, outputData, canvasSize, fitToSquare,
    isProcessing, error, closure, timers, invocations, started, changedSince,
    probe>>

Stages ==
  <<"type", "read", "load", "decode", "metadata", "context", "geometry",
    "draw", "encode", "size", "output">>

\* the first k stages of the pipeline
RECURSIVE StagesUpTo(_)
StagesUpTo(k) == IF k = 0 THEN << >> ELSE Append(StagesUpTo(k - 1), Stages[k])

StageIndex(stage) == CHOOSE k \in 1..Len(Stages) : Stages[k] = stage

Through(stage) == StagesUpTo(StageIndex(stage))

\* a call keeps its argument and the settings of the render that made it
\* (atCall) while it is in flight, the stages it entered (steps), and the
\* output it passed to setOutputData (out)
Call(pc, file, atCall, steps, out) ==
  [pc |-> pc, file |-> file, atCall |-> atCall, steps |-> steps, out |-> out]

NotStarted == Call("idle", null, null, << >>, null)

Failed(stage) == Call("failed", null, null, Through(stage), null)

Done(result) == Call("done", null, null, Through("output"), result)

InFlight(i) == invocations[i].pc \in {"read", "load", "decode"}

Settings(fit, size) == [fitToSquare |-> fit, canvasSize |-> size]

\* an error handler that swallows the message
showErrorSilent(message) == null

\* showError, lines 38-41, and the catch of line 143: the error shown
showError(message) == [message |-> message]

\* a pipeline without its finally block
afterFinallyMissing == isProcessing

\* setIsProcessing(false), line 145
afterFinally == FALSE

\* the template literal of line 58
UnsupportedMessage(type) ==
  <<"Unsupported file type: ", type, ". Please use PNG, JPEG, WEBP, or SVG.">>

\* the other messages, as one-part texts
ReadFailed == <<"Failed to read file">>
LoadFailed == <<"Failed to load image">>
DecodeFailed == <<"EncodingError: the source image cannot be decoded">>
ContextUnavailable == <<"Canvas context not available">>
EncodeFailed == <<"SecurityError: the canvas may not be exported">>

\* the component after its first render
Mounted ==
  /\ selectedFile = null
  /\ imageMetadata = null
  /\ outputData = null
  /\ canvasSize = InitialCanvasSize
  /\ fitToSquare = TRUE
  /\ isProcessing = FALSE
  /\ error = null
  /\ closure = Settings(TRUE, InitialCanvasSize)
  /\ timers = << >>
  /\ invocations = [i \in 1..MaxInv |-> NotStarted]
  /\ started = 0
  /\ changedSince = FALSE

Init == Mounted /\ probe = null

(***************************************************************************)
(* The effect of lines 236-243, run after a render in which one of         *)
(* canvasSize, fitToSquare, selectedFile changed: the cleanup of the       *)
(* previous run clears its timeout, then a new one is set when a file is   *)
(* selected and the render saw isProcessing false.                         *)
(***************************************************************************)
\* an effect whose cleanup leaves the previous timeout pending
CleanupMissing == timers

\* clearTimeout(timer), line 241: the timeout set by the previous run of the
\* effect, if it has not fired, is cancelled
Cleanup == IF timers = << >> THEN << >> ELSE SubSeq(timers, 1, Len(timers) - 1)

Effect(newSize, newFit, newFile, fileChanged, newProcessing) ==
  IF newSize # canvasSize \/ newFit # fitToSquare \/ fileChanged
  THEN IF newFile # null /\ ~newProcessing
       THEN Append(Cleanup, newFile)
       ELSE Cleanup
  ELSE timers

(***************************************************************************)
(* processImage up to its first await, lines 52-67: messages cleared,      *)
(* isProcessing set, the type checked; a rejected type runs the catch and  *)
(* the finally block in the same step.                                     *)
(***************************************************************************)
Begun(file) ==
  IF isValidImageType(file.type)
  THEN Call("read", file, Settings(fitToSquare, canvasSize), Through("read"), null)
  ELSE Failed("type")

ProcessingAfterBegin(file) ==
  IF isValidImageType(file.type) THEN TRUE ELSE afterFinally

ErrorAfterBegin(file) ==
  IF isValidImageType(file.type) THEN null
  ELSE showError(UnsupportedMessage(file.type))

processImage(file) ==
  /\ started < MaxInv
  /\ started' = started + 1
  /\ invocations' = [invocations EXCEPT ![started + 1] = Begun(file)]
  /\ error' = ErrorAfterBegin(file)
  /\ isProcessing' = ProcessingAfterBegin(file)
  /\ changedSince' = FALSE
  /\ UNCHANGED <<imageMetadata, outputData, closure, probe>>

\* lines 149-152 (reached from handleFileInputChange and handleDrop)
handleFileSelect(file) ==
  /\ selectedFile' = file
  /\ processImage(file)
  /\ timers' = Effect(canvasSize, fitToSquare, file, TRUE, ProcessingAfterBegin(file))
  /\ UNCHANGED <<canvasSize, fitToSquare>>

\* lines 224-229; the control is rendered only when a file is selected (line 283)
handleCanvasSizeChange(text) ==
  LET value == parseInt(text)
  IN /\ selectedFile # null
     /\ IF CanvasSizeAccepted(value)
        THEN /\ canvasSize' = value.n
             /\ timers' = Effect(value.n, fitToSquare, selectedFile, FALSE, isProcessing)
             /\ changedSince' = (changedSince \/ value.n # canvasSize)
        ELSE UNCHANGED <<canvasSize, timers, changedSince>>
     /\ UNCHANGED <<selectedFile, imageMetadata, outputData, fitToSquare,
                    isProcessing, error, closure, invocations, started, probe>>

\* lines 231-233; rendered only when a file is selected (line 283)
handleFitToSquareChange(checked) ==
  /\ selectedFile # null
  /\ fitToSquare' = checked
  /\ timers' = Effect(canvasSize, checked, selectedFile, FALSE, isProcessing)
  /\ changedSince' = (changedSince \/ checked # fitToSquare)
  /\ UNCHANGED <<selectedFile, imageMetadata, outputData, canvasSize,
                 isProcessing, error, closure, invocations, started, probe>>

\* the timeout callback of lines 238-240
timeoutFires ==
  \E k \in 1..Len(timers) :
    /\ processImage(timers[k])
    /\ timers' = SubSeq(timers, 1, k - 1) \o SubSeq(timers, k + 1, Len(timers))
    /\ UNCHANGED <<selectedFile, canvasSize, fitToSquare>>

(***************************************************************************)
(* The continuations of processImage, one per settled promise.             *)
(***************************************************************************)
\* the step of invocation i that moves it on to the next await
Advance(i, stage) ==
  /\ invocations' = [invocations EXCEPT ![i].pc = stage, ![i].steps = Through(stage)]
  /\ UNCHANGED <<selectedFile, imageMetadata, outputData, canvasSize, fitToSquare,
                 isProcessing, error, closure, timers, started, changedSince, probe>>

\* a rejected await: the catch and finally blocks, lines 142-146
Reject(i, stage, message) ==
  /\ invocations' = [invocations EXCEPT ![i] = Failed(stage)]
  /\ error' = showError(message)
  /\ isProcessing' = afterFinally
  /\ UNCHANGED <<selectedFile, imageMetadata, outputData, canvasSize, fitToSquare,
                 closure, timers, started, changedSince, probe>>

\* reader.onload, line 64, then lines 70-75
readerOnLoad(i) == invocations[i].pc = "read" /\ Advance(i, "load")

\* reader.onerror, line 65
readerOnError(i) == invocations[i].pc = "read" /\ Reject(i, "read", ReadFailed)

\* a pipeline that does not await img.decode() and converts at once
imgOnLoadNoAwait(i) ==
  LET file == invocations[i].file
      result == OutputData(Canvas(closure.fitToSquare, closure.canvasSize, file))
  IN /\ invocations[i].pc = "load"
     /\ imageMetadata' = ImageMetadata(file)
     /\ invocations' = [invocations EXCEPT ![i] = Done(result)]
     /\ outputData' = result
     /\ isProcessing' = afterFinally
     /\ UNCHANGED <<selectedFile, canvasSize, fitToSquare, error, closure, timers,
                    started, changedSince, probe>>

\* img.onload, line 72, then line 78
imgOnLoad(i) == invocations[i].pc = "load" /\ Advance(i, "decode")

\* img.onerror, line 73
imgOnError(i) == invocations[i].pc = "load" /\ Reject(i, "load", LoadFailed)

\* img.decode() rejects, line 78
decodeRejected(i) == invocations[i].pc = "decode" /\ Reject(i, "decode", DecodeFailed)

\* what lines 89-140 make of a decoded file: the stage reached and the output
Converted(file, ctxAvailable, encodable) ==
  LET currentFitToSquare == closure.fitToSquare
      currentCanvasSize == closure.canvasSize
      canvas == Canvas(currentFitToSquare, currentCanvasSize, file)
  IN IF ~ctxAvailable THEN [stage |-> "context", message |-> ContextUnavailable]
     ELSE IF ~encodable THEN [stage |-> "encode", message |-> EncodeFailed]
     ELSE [stage |-> "output", result |-> OutputData(canvas)]

\* img.decode() resolves: lines 80-146 run to the end.  getContext may give
\* null and toDataURL may throw.
decodeResolved(i, ctxAvailable, encodable) ==
  LET file == invocations[i].file
      end == Converted(file, ctxAvailable, encodable)
  IN /\ invocations[i].pc = "decode"
     /\ imageMetadata' = ImageMetadata(file)
     /\ IF end.stage = "output"
        THEN /\ invocations' = [invocations EXCEPT ![i] = Done(end.result)]
             /\ outputData' = end.result
             /\ UNCHANGED error
        ELSE /\ invocations' = [invocations EXCEPT ![i] = Failed(end.stage)]
             /\ error' = showError(end.message)
             /\ UNCHANGED outputData
     /\ isProcessing' = afterFinally
     /\ UNCHANGED <<selectedFile, canvasSize, fitToSquare, closure, timers,
                    started, changedSince, probe>>

\* the promise invocation i awaits settles
Settle(i) ==
  \/ readerOnLoad(i)
  \/ readerOnError(i)
  \/ imgOnLoad(i)
  \/ imgOnError(i)
  \/ decodeRejected(i)
  \/ \E ctxAvailable \in BOOLEAN, encodable \in BOOLEAN :
       decodeResolved(i, ctxAvailable, encodable)

\* the events of the component when the user picks among files
Events(files) ==
  \/ \E file \in files : handleFileSelect(file)
  \/ \E text \in CanvasInputs : handleCanvasSizeChange(text)
  \/ \E checked \in BOOLEAN : handleFitToSquareChange(checked)
  \/ timeoutFires
  \/ \E i \in 1..MaxInv : readerOnLoad(i)
  \/ \E i \in 1..MaxInv : readerOnError(i)
  \/ \E i \in 1..MaxInv : imgOnLoad(i)
  \/ \E i \in 1..MaxInv : imgOnError(i)
  \/ \E i \in 1..MaxInv : decodeRejected(i)
  \/ \E i \in 1..MaxInv, ctxAvailable \in BOOLEAN, encodable \in BOOLEAN :
       decodeResolved(i, ctxAvailable, encodable)

Next == Events(Files)

Spec == Init /\ [][Next]_vars

NextUnsized == Events(UnsizedFiles)

\* the component offered a file without intrinsic size
SpecUnsized == Init /\ [][NextUnsized]_vars

NextRetry == Events(RetryFiles)

\* the browser settles every FileReader, image load and decode promise
FairSpec ==
  Init /\ [][NextRetry]_vars /\ \A i \in 1..MaxInv : WF_vars(Settle(i))

(***************************************************************************)
(* The fit-to-square geometry applied on its own, to every accepted canvas *)
(* size and every natural size up to MaxDim, and to a 100 x 50 source.     *)
(***************************************************************************)
InitGeometry ==
  /\ Mounted
  /\ probe \in [op : {"fit"}, size : MinCanvasSize..MaxCanvasSize,
                nw : (0..MaxDim) \cup {100}, nh : (0..MaxDim) \cup {50},
                rect : {null}]

computeFitRect ==
  /\ probe.rect = null
  /\ probe' = [probe EXCEPT !.rect = FitRect(probe.size, probe.nw, probe.nh)]
  /\ UNCHANGED <<selectedFile, imageMetadata, outputData, canvasSize, fitToSquare,
                 isProcessing, error, closure, timers, invocations, started, changedSince>>

NextGeometry == computeFitRect

SpecGeometry == InitGeometry /\ [][NextGeometry]_vars

(***************************************************************************)
(* The size accounting applied on its own, to every payload toDataURL can  *)
(* produce: padded base64, a multiple of four characters.                  *)
(***************************************************************************)
InitSize ==
  /\ Mounted
  /\ probe \in [op : {"size"}, length : {4 * q : q \in 0..MaxQuads}, sizeKB : {null}]

computeOutputSize ==
  /\ probe.sizeKB = null
  /\ probe' = [probe EXCEPT !.sizeKB = OutputSizeKB(probe.length)]
  /\ UNCHANGED <<selectedFile, imageMetadata, outputData, canvasSize, fitToSquare,
                 isProcessing, error, closure, timers, invocations, started, changedSince>>

NextSize == computeOutputSize

SpecSize == InitSize /\ [][NextSize]_vars

(***************************************************************************)
(* Properties.                                                             *)
(***************************************************************************)
Calls == 1..MaxInv

Finished(i) == invocations[i].pc \in {"done", "failed"}

Quiescent == \A i \in Calls : ~InFlight(i)

\* invocation i leaves its last await in this step
Completes(i) == invocations[i].pc = "decode" /\ invocations'[i].pc # "decode"

\* invocation i writes outputData in this step
Succeeds(i) == invocations[i].pc = "decode" /\ invocations'[i].pc = "done"

\* invocation i fails in this step
Fails(i) == invocations[i].pc # "failed" /\ invocations'[i].pc = "failed"

\* C1: once no invocation is in flight and the most recently started one has
\* succeeded, the outputData shown is the one that invocation produced: no
\* earlier invocation has overwritten it.
C1_LatestResultShown ==
  (started > 0 /\ Quiescent /\ invocations[started].pc = "done")
    => outputData = invocations[started].out

\* C2: a conversion invoked while fitToSquare is false stores an output of
\* the source's natural width and height.
C2_NativeSizeWhenNotFit ==
  [][\A i \in Calls :
       (Succeeds(i) /\ ~invocations[i].atCall.fitToSquare)
         => /\ outputData'.outputWidth = naturalWidth(invocations[i].file)
            /\ outputData'.outputHeight = naturalHeight(invocations[i].file)]_vars

\* C3: a conversion invoked while fitToSquare is true stores a square output
\* whose edge is the canvasSize in effect when it was invoked.
C3_SquareOfCurrentCanvasSize ==
  [][\A i \in Calls :
       (Succeeds(i) /\ invocations[i].atCall.fitToSquare)
         => /\ outputData'.outputWidth = invocations[i].atCall.canvasSize
            /\ outputData'.outputHeight = invocations[i].atCall.canvasSize]_vars

\* processImage(file) is called in this step
Invoked(file) ==
  \/ handleFileSelect(file)
  \/ (\E k \in 1..Len(timers) : timers[k] = file) /\ timeoutFires

\* C4: processImage on a file whose type is not png, jpeg, webp or svg+xml
\* ends in the step that calls it, having entered the type check alone (no
\* read, load or decode), shows the unsupported-type message and leaves
\* imageMetadata and outputData as they were.
C4_UnsupportedTypeRejected ==
  [][\A file \in Files :
       (file.type \notin {"image/png", "image/jpeg", "image/webp", "image/svg+xml"}
          /\ Invoked(file))
         => /\ invocations'[started'].pc = "failed"
            /\ invocations'[started'].steps = <<"type">>
            /\ error' = [message |-> UnsupportedMessage(file.type)]
            /\ imageMetadata' = imageMetadata
            /\ outputData' = outputData]_vars

\* C4 happens: with an output on display, an image/gif was rejected
C4_Witness ==
  /\ outputData # null
  /\ imageMetadata # null
  /\ error = [message |-> UnsupportedMessage("image/gif")]
  /\ \E i \in Calls : invocations[i].pc = "failed" /\ invocations[i].steps = <<"type">>

\* C5: a decoded source of zero natural width or height makes the conversion
\* fail: it ends failed and stores no outputData.
C5_ZeroDimensionFails ==
  [][\A i \in Calls :
       (Completes(i) /\ (naturalWidth(invocations[i].file) = 0
                           \/ naturalHeight(invocations[i].file) = 0))
         => /\ invocations'[i].pc = "failed"
            /\ outputData' = outputData]_vars

\* C6: for a source of positive natural width and height and an accepted
\* canvas size, the fit-to-square draw rectangle keeps the aspect ratio
\* (width * nh = height * nw) and lies inside the canvas.
C6_FitRectInsideAndProportional ==
  (probe # null /\ probe.op = "fit" /\ probe.rect # null
     /\ probe.nw > 0 /\ probe.nh > 0)
    => LET r == probe.rect
           edge == FromInt(probe.size)
       IN /\ JsEq(JsMulInt(probe.nh, r.width), JsMulInt(probe.nw, r.height))
          /\ JsLe(FromInt(0), r.x)
          /\ JsLe(FromInt(0), r.y)
          /\ JsLe(JsAdd(r.x, r.width), edge)
          /\ JsLe(JsAdd(r.y, r.height), edge)

\* C6 happens: a source that is not square is letterboxed on the largest canvas
C6_Witness ==
  /\ probe # null /\ probe.op = "fit" /\ probe.rect # null
  /\ probe.nw = 3 /\ probe.nh = 2 /\ probe.size = MaxCanvasSize
  /\ JsEq(probe.rect.width, FromInt(MaxCanvasSize))
  /\ ~JsEq(probe.rect.y, FromInt(0))

\* C7: outputSizeKB is the one-decimal rounding of the decoded byte length
\* ceil(L * 3 / 4) of the payload over 1024, and is 1.0 for L = 1368.
C7_SizeFromDecodedLength ==
  (probe # null /\ probe.op = "size" /\ probe.sizeKB # null)
    => /\ JsEq(probe.sizeKB,
               Num(MathRound(MathCeil(probe.length * 3, 4) * 10, 1024), 10))
       /\ probe.length = 1368 => JsEq(probe.sizeKB, FromInt(1))

\* C7 happens: the size of a payload of 1368 characters has been computed
C7_Witness ==
  /\ probe # null /\ probe.op = "size"
  /\ probe.length = 1368
  /\ probe.sizeKB = Num(10, 10)

\* C8: canvasSize and the size conversions run with stay in 8..2048;
\* handleCanvasSizeChange takes "8" and "2048" and leaves canvasSize alone
\* on "7", "2049" and the empty text.
C8_CanvasSizeValidated ==
  /\ canvasSize \in 8..2048
  /\ closure.canvasSize \in 8..2048
  /\ [][/\ canvasSize' \in 8..2048
        /\ closure'.canvasSize \in 8..2048
        /\ \A i \in Calls :
             (Succeeds(i) /\ closure.fitToSquare)
               => /\ outputData'.outputWidth \in 8..2048
                  /\ outputData'.outputHeight \in 8..2048
        /\ canvasSize' = 8 \/ ~handleCanvasSizeChange(<<"8">>)
        /\ canvasSize' = 2048 \/ ~handleCanvasSizeChange(<<"2", "0", "4", "8">>)
        /\ \A text \in {<<"7">>, <<"2", "0", "4", "9">>, << >>} :
             canvasSize' = canvasSize \/ ~handleCanvasSizeChange(text)]_vars

\* C8 happens: the largest edge was accepted and a conversion has run
C8_Witness ==
  /\ canvasSize = 2048
  /\ \E i \in Calls : invocations[i].pc = "done"

\* C9: the step in which a conversion fails shows an error message and
\* leaves outputData alone, a failed conversion takes no further step, and
\* outputData changes only in the step that ends a conversion which went
\* through every stage.
C9_FailFast ==
  [][/\ \A i \in Calls :
          Fails(i) => /\ error' # null
                      /\ outputData' = outputData
                      /\ invocations'[i].steps # Stages
     /\ \A i \in Calls :
          invocations[i].pc = "failed" => invocations'[i] = invocations[i]
     /\ outputData' # outputData
          => \E i \in Calls : /\ Succeeds(i)
                              /\ invocations'[i].steps = Stages
                              /\ outputData' = invocations'[i].out]_vars

\* C9 happens: a conversion failed at the last fallible stage, encoding,
\* with its error shown and no output stored
C9_Witness ==
  /\ outputData = null
  /\ error = [message |-> EncodeFailed]
  /\ \E i \in Calls : /\ invocations[i].pc = "failed"
                       /\ invocations[i].steps = Through("encode")

\* C10: every conversion in flight ends; once any has ended isProcessing
\* becomes false; and whatever failed before, a file can be selected again
\* and starts a conversion from the first stage.
C10_TerminatesAndRecovers ==
  /\ \A i \in Calls : InFlight(i) ~> Finished(i)
  /\ (\E i \in Calls : Finished(i)) ~> ~isProcessing
  /\ [](started < MaxInv => \A file \in RetryFiles : ENABLED handleFileSelect(file))
  /\ [][\A file \in RetryFiles :
          (handleFileSelect(file) /\ isValidImageType(file.type))
            => /\ invocations'[started'].pc = "read"
               /\ invocations'[started'].file = file
               /\ isProcessing' /\ error' = null]_vars

\* C10 happens: after a failed conversion a second one succeeded and
\* isProcessing is false again
C10_Witness ==
  /\ MaxInv >= 2
  /\ invocations[1].pc = "failed"
  /\ invocations[2].pc = "done"
  /\ outputData = invocations[2].out
  /\ ~isProcessing

\* the stage is among those the invocation has entered
Entered(steps, stage) == \E k \in 1..Len(steps) : steps[k] = stage

\* the stages after the last await
AfterDecode == {"metadata", "context", "geometry", "draw", "encode", "size", "output"}

\* C11: an invocation still awaiting its read, load or decode has entered no
\* stage after decode; an invocation enters a stage after decode only in the
\* step that continues from its resolved decode, having gone through type
\* check, read, load and decode in that order; and imageMetadata and
\* outputData are written only in such a step.
C11_StagesOrdered ==
  /\ [](\A i \in Calls :
         InFlight(i) => \A stage \in AfterDecode : ~Entered(invocations[i].steps, stage))
  /\ [][/\ \A i \in Calls :
            (\E stage \in AfterDecode :
               /\ Entered(invocations'[i].steps, stage)
               /\ ~Entered(invocations[i].steps, stage))
              => /\ invocations[i].pc = "decode"
                 /\ invocations[i].steps = <<"type", "read", "load", "decode">>
                 /\ SubSeq(invocations'[i].steps, 1, 4) = invocations[i].steps
        /\ (imageMetadata' # imageMetadata \/ outputData' # outputData)
             => \E i \in Calls : Completes(i)]_vars

\* C11 happens: one conversion has gone through every stage while another
\* still awaits its decode
C11_Witness ==
  \E i, j \in Calls :
    /\ invocations[i].pc = "done" /\ invocations[i].steps = Stages
    /\ invocations[j].pc = "decode"
    /\ invocations[j].steps = <<"type", "read", "load", "decode">>
    /\ outputData = invocations[i].out

\* C12: for positive nativeWidth, nativeHeight and targetEdge the draw
\* rectangle of the fit-to-square branch is the reference one: scale =
\* min(targetEdge/nativeWidth, targetEdge/nativeHeight), width =
\* nativeWidth*scale, height = nativeHeight*scale, x = (targetEdge - width)/2,
\* y = (targetEdge - height)/2; for 100 x 50 in 256 it is x 0, y 64,
\* width 256, height 128.
C12_FitRectIsReference ==
  (probe # null /\ probe.op = "fit" /\ probe.rect # null
     /\ probe.nw > 0 /\ probe.nh > 0)
    => LET r == probe.rect
           targetEdge == probe.size
           scale == IF targetEdge * probe.nh <= targetEdge * probe.nw
                    THEN [n |-> targetEdge, d |-> probe.nw]
                    ELSE [n |-> targetEdge, d |-> probe.nh]
           width == [n |-> probe.nw * scale.n, d |-> scale.d]
           height == [n |-> probe.nh * scale.n, d |-> scale.d]
           x == [n |-> targetEdge * width.d - width.n, d |-> 2 * width.d]
           y == [n |-> targetEdge * height.d - height.n, d |-> 2 * height.d]
       IN /\ \A f \in {"x", "y", "width", "height"} : r[f].d > 0
          /\ r.width.n * width.d = width.n * r.width.d
          /\ r.height.n * height.d = height.n * r.height.d
          /\ r.x.n * x.d = x.n * r.x.d
          /\ r.y.n * y.d = y.n * r.y.d
          /\ (probe.nw = 100 /\ probe.nh = 50 /\ probe.size = 256)
               => /\ r.x.n = 0
                  /\ r.y.n = 64 * r.y.d
                  /\ r.width.n = 256 * r.width.d
                  /\ r.height.n = 128 * r.height.d

\* C12 happens: the rectangle of a 100 x 50 source in a square of 256 has
\* been computed
C12_Witness ==
  /\ probe # null /\ probe.op = "fit" /\ probe.rect # null
  /\ probe.nw = 100 /\ probe.nh = 50 /\ probe.size = 256
  /\ JsEq(probe.rect.y, FromInt(64))
  /\ JsEq(probe.rect.height, FromInt(128))

\* C13: a change of canvasSize or fitToSquare made while a file is selected
\* is followed by a processImage call: once no conversion is in flight, no
\* re-process timer is pending and the latest call has stored its output,
\* that call was made after the last control change.
C13_ReprocessedAfterChange ==
  (/\ selectedFile # null /\ Quiescent /\ timers = << >>
   /\ started > 0 /\ invocations[started].pc = "done"
   /\ outputData = invocations[started].out)
    => ~changedSince

\* canvasSize or fitToSquare changes in this step
ControlChanged == canvasSize' # canvasSize \/ fitToSquare' # fitToSquare

\* C14 as stated: at most one re-process timer is pending; a change of
\* canvasSize, fitToSquare or selectedFile made while a timer is pending
\* cancels it and leaves exactly one timer pending, for the file selected
\* after the change; and the timer-triggered call takes the only pending
\* timer, for the selected file, after the last change.
C14_Debounced ==
  /\ [](Len(timers) <= 1)
  /\ [][/\ (timers # << >> /\ (ControlChanged \/ \E file \in Files : handleFileSelect(file)))
            => timers' = <<selectedFile'>>
        /\ timeoutFires
            => /\ timers = <<selectedFile>>
               /\ timers' = << >>
               /\ started' = started + 1
               /\ ~changedSince']_vars

\* C14, amended: at most one re-process timer is pending; a change of
\* canvasSize or fitToSquare made while a timer is pending cancels it and
\* leaves exactly one timer pending, for the selected file; selecting a file
\* cancels the pending timer, calls processImage itself in that step and
\* leaves a timer pending only when the file was rejected; and the
\* timer-triggered call takes the only pending timer, for the selected file,
\* after the last change.
C14_DebouncedControls ==
  /\ [](Len(timers) <= 1)
  /\ [][/\ (timers # << >> /\ ControlChanged) => timers' = <<selectedFile>>
        /\ \A file \in Files :
             handleFileSelect(file)
               => /\ started' = started + 1
                  /\ timers' = IF isValidImageType(file.type) THEN << >> ELSE <<file>>
        /\ timeoutFires
            => /\ timers = <<selectedFile>>
               /\ timers' = << >>
               /\ started' = started + 1
               /\ ~changedSince']_vars

\* C14 happens: a rejected file was selected, which left a timer pending,
\* both controls were changed before it fired, and one timer-triggered call
\* was made after the last change, leaving no timer pending
C14_Witness ==
  /\ started = 2
  /\ selectedFile # null /\ ~isValidImageType(selectedFile.type)
  /\ invocations[1].pc = "failed" /\ invocations[2].pc = "failed"
  /\ canvasSize # InitialCanvasSize /\ ~fitToSquare
  /\ ~changedSince
  /\ timers = << >>

\* C15: isProcessing is true in every state in which a processImage
\* invocation is still in flight.
C15_ProcessingWhileInFlight ==
  (\E i \in Calls : InFlight(i)) => isProcessing

\* C16: whenever imageMetadata and outputData are both set, the file the
\* metadata describes is the source image the data URI was encoded from.
C16_PreviewOfOneConversion ==
  (imageMetadata # null /\ outputData # null)
    => outputData.dataUri.base64.png.image = imageMetadata.filename


====
